---- MODULE Spec2Model ----
(***************************************************************************)
(* A model of gumroad-utils: the FilesCache of scrapper.py, the download   *)
(* engine GumroadScrapper._fancy_download_file, the product and library    *)
(* scrapers, and the top level of run.py that drives them.                 *)
(***************************************************************************)
EXTENDS Naturals, Sequences, FiniteSets, TLC

VARIABLES
    disk,       \* the cache file: [exists, doc], doc an object of arrays
    storage,    \* FilesCache._storage of the running instance
    fresh,      \* _storage of a second FilesCache instance on the same file
    phase,      \* "dirty" | "saved" | "reloaded": fresh against the last save
    answer,     \* the value the last is_cached call returned
    pc,         \* where the process is
    run,        \* the number of the invocation
    exc,        \* the exception that ended the run, "none" otherwise
    creators,   \* the creators argument of scrape_library
    library,    \* script["results"] of the library page as fetched
    results,    \* script["results"] from the current one on
    links,      \* the links of _execute_download from the current one on
    product,    \* the product page being scrapped
    tasks,      \* the _fancy_download_file calls of the tree walk still to make
    resp,       \* the streamed response of the current call
    written,    \* the chunks of the current body written so far
    fs,         \* the files below the root folder: path -> chunks held
    net,        \* the requests sent in this run, in order
    log,        \* the log records of this run, in order
    completed,  \* the (product_id, file_id) whose body was written in full
    arg,        \* the arguments of the function applied on its own
    ret,        \* what the function returned
    config      \* config["scrapper"]: the product_folder_tmpl of the run

cacheVars == <<disk, storage, fresh, phase, answer>>
runVars == <<pc, run, exc, creators, library, results, links, product, tasks, resp,
             written, fs, net, log, completed>>
pureVars == <<arg, ret>>
vars == <<disk, storage, fresh, phase, answer, pc, run, exc, creators, library,
          results, links, product, tasks, resp, written, fs, net, log, completed,
          arg, ret, config>>

\* ------------------------------------------------------------------ data

ProductIds == {"p1", "p2"}
FileIds == {"f1", "f2", "f3"}

Range(s) == {s[i] : i \in DOMAIN s}

\* defaultdict(set) with no key
EmptyStorage == [k \in {} |-> {}]

NoFile == [exists |-> FALSE, doc |-> EmptyStorage, torn |-> FALSE]

\* the file after open(path, "w") and before json.dump has written it all
TornFile == [exists |-> TRUE, doc |-> EmptyStorage, torn |-> TRUE]

\* ------------------------------------------------------------ FilesCache

\* dict.get(product_id, []): no entry is created for a missing key
Get(st, p) == IF p \in DOMAIN st THEN st[p] ELSE {}

\* is_cached with the two identifiers taken for each other
IsCachedSwapped(st, p, f) == p \in Get(st, f)

IsCached(st, p, f) == f \in Get(st, p)

\* is_cached reading self._storage[product_id]: the defaultdict creates the key
IsCachedEffectCreating(st, p) ==
    [k \in (DOMAIN st) \cup {p} |-> Get(st, k)]

\* the storage after is_cached(p, f)
IsCachedEffect(st, p) == st

\* self._storage[product_id].add(file_id): the defaultdict creates the key
CacheOp(st, p, f) ==
    [k \in (DOMAIN st) \cup {p} |-> IF k = p THEN Get(st, p) \cup {f} ELSE st[k]]

\* list(a set): every element once, in the set's iteration order
ListsOf(S) == {s \in [1..Cardinality(S) -> S] : Range(s) = S}

\* json.dump(self._storage, default=list): an object of arrays
Dumps(st) ==
    {d \in [DOMAIN st -> UNION {ListsOf(st[k]) : k \in DOMAIN st}] :
        \A k \in DOMAIN st : d[k] \in ListsOf(st[k])}

\* open(path, "w") and json.dump: the documents save() can leave on disk
SaveDocs(st) == {[exists |-> TRUE, doc |-> d, torn |-> FALSE] : d \in Dumps(st)}

\* load() keeping the first element of each array only
LoadFirstOnly(st, dk) ==
    IF ~dk.exists THEN st
    ELSE [k \in (DOMAIN st) \cup (DOMAIN dk.doc) |->
            IF k \in DOMAIN dk.doc THEN Range(SubSeq(dk.doc[k], 1, 1)) ELSE st[k]]

\* load(): a missing file is no error; each key's array replaces the key's set
Load(st, dk) ==
    IF ~dk.exists THEN st
    ELSE [k \in (DOMAIN st) \cup (DOMAIN dk.doc) |->
            IF k \in DOMAIN dk.doc THEN Range(dk.doc[k]) ELSE st[k]]

\* FilesCache(file_path): an empty defaultdict, then load()
NewFilesCache(dk) == Load(EmptyStorage, dk)

\* the pairs a document on disk holds
DiskPairs(dk) ==
    {pf \in ProductIds \X FileIds :
        dk.exists /\ pf[1] \in DOMAIN dk.doc /\ pf[2] \in Range(dk.doc[pf[1]])}

Pairs(st) == {pf \in ProductIds \X FileIds : IsCached(st, pf[1], pf[2])}

\* ----------------------------------------------------- names and paths

\* a string is a sequence of one-character strings; a path a sequence of names

\* invalid_chars of sanitize_filename
InvalidChars == {"<", ">", ":", "\"", "/", "\\", "|", "?", "*"}

RECURSIVE SanitizeKeeping(_, _)
\* sanitize_filename putting the replacement after the invalid character
SanitizeKeeping(filename, repl) ==
    IF filename = <<>> THEN <<>>
    ELSE (IF Head(filename) \in InvalidChars THEN <<Head(filename)>> \o repl
          ELSE <<Head(filename)>>)
            \o SanitizeKeeping(Tail(filename), repl)

RECURSIVE Sanitize(_, _)
\* sanitize_filename: each invalid character becomes the replacement string
Sanitize(filename, repl) ==
    IF filename = <<>> THEN <<>>
    ELSE (IF Head(filename) \in InvalidChars THEN repl ELSE <<Head(filename)>>)
            \o Sanitize(Tail(filename), repl)

RECURSIVE LStrip(_)
LStrip(s) == IF s # <<>> /\ Head(s) = " " THEN LStrip(Tail(s)) ELSE s

RECURSIVE RStrip(_)
RStrip(s) ==
    IF s # <<>> /\ s[Len(s)] = " " THEN RStrip(SubSeq(s, 1, Len(s) - 1)) ELSE s

\* str.strip()
Strip(s) == RStrip(LStrip(s))

RECURSIVE SplitSlash(_, _)
\* the names a string holds between its slashes, cur the name being read
SplitSlash(s, cur) ==
    LET done == IF cur = <<>> \/ cur = <<".">> THEN <<>> ELSE <<cur>>
    IN  IF s = <<>> THEN done
        ELSE IF Head(s) = "/" THEN done \o SplitSlash(Tail(s), <<>>)
        ELSE SplitSlash(Tail(s), Append(cur, Head(s)))

\* Path("/")
RootPath == << <<"/">> >>

\* path / name: an absolute name replaces the path, slashes split the name
PathJoin(path, name) ==
    IF name # <<>> /\ Head(name) = "/"
    THEN RootPath \o SplitSlash(name, <<>>)
    ELSE path \o SplitSlash(name, <<>>)

RECURSIVE LastDot(_, _)
\* str.rfind("."): the last index of a dot in s at or before i, 0 when none
LastDot(s, i) == IF i = 0 THEN 0 ELSE IF s[i] = "." THEN i ELSE LastDot(s, i - 1)

\* PurePath.suffix of a file name
SuffixStart(name) ==
    LET i == LastDot(name, Len(name))
    IN  IF 1 < i /\ i < Len(name) THEN i ELSE Len(name) + 1

\* Path.with_suffix raises ValueError for an empty name or a suffix of "."
WithSuffixRaises(path, suffix) ==
    \/ Len(path) <= 1
    \/ suffix = <<".">>
    \/ "/" \in Range(suffix)

\* Path.with_suffix(suffix): the last suffix of the name replaced
WithSuffix(path, suffix) ==
    LET name == path[Len(path)]
    IN  SubSeq(path, 1, Len(path) - 1)
            \o <<SubSeq(name, 1, SuffixStart(name) - 1) \o suffix>>

\* Path.append_suffix(suffix) of pathlib3x
AppendSuffix(path, suffix) ==
    SubSeq(path, 1, Len(path) - 1) \o <<path[Len(path)] \o suffix>>

\* str.lower() on the characters used here
LowerChar(c) ==
    CASE c = "Z" -> "z" [] c = "I" -> "i" [] c = "P" -> "p" [] c = "D" -> "d"
      [] c = "F" -> "f" [] c = "R" -> "r" [] c = "A" -> "a" [] OTHER -> c

Lower(s) == [i \in DOMAIN s |-> LowerChar(s[i])]

\* ------------------------------------------------------ the tree walker

\* the root folder of the run, and the replacement string of the scrapper
RootFolder == << <<"R">> >>
SlashReplacement == <<"_">>

\* None as a download_url
Null == "None"

FileItem(id, name, ext, url) ==
    [id |-> id, type |-> "file", file_name |-> name, extension |-> ext,
     download_url |-> url]

FolderItem(name, children) ==
    [name |-> name, type |-> "folder", children |-> children]

\* self._session.base_url + item["download_url"]
FileUrl(item) == [id |-> item.download_url, kind |-> "file"]

\* the number of items of a level that are no folder (files_count)
FilesCount(items) == Cardinality({i \in DOMAIN items : items[i].type # "folder"})

\* the second loop's test without the test on the download_url
IsDownloadableAnyFile(item) == item.type = "file"

\* the second loop's test for an item that gets a download call
IsDownloadable(item) == item.type = "file" /\ item.download_url # Null

\* file_idx of the item at index i: the downloadable items up to it
FileIdx(items, i) ==
    Cardinality({j \in 1..i : IsDownloadable(items[j])})

\* one call of the second loop: the arguments of _fancy_download_file, or the
\* ValueError of with_suffix
FileTask(product_id, items, i, tree_path, parent_folder) ==
    LET item == items[i]
        file_name == Sanitize(item.file_name, SlashReplacement)
        suffix == <<".">> \o Lower(item.extension)
        joined == PathJoin(parent_folder, file_name)
    IN  IF WithSuffixRaises(joined, suffix)
        THEN [exc |-> "ValueError", kind |-> "raise"]
        ELSE [url |-> FileUrl(item),
              kind |-> "download",
              product_id |-> product_id,
              tree_path |-> tree_path,
              file_id |-> item.id,
              file_path |-> WithSuffix(joined, suffix),
              files_total_count |-> FilesCount(items),
              file_idx |-> FileIdx(items, i),
              transient |-> TRUE]

RECURSIVE TraverseTree(_, _, _, _)
RECURSIVE TraverseFolders(_, _, _, _, _)

\* the first loop of _traverse_tree from index i on: the calls of the
\* subfolders, in the order of the items
TraverseFolders(product_id, items, i, tree_path, parent_folder) ==
    IF i > Len(items) THEN <<>>
    ELSE (IF items[i].type = "folder"
          THEN TraverseTree(product_id, items[i].children,
                            PathJoin(tree_path, Strip(items[i].name)),
                            PathJoin(parent_folder, Strip(items[i].name)))
          ELSE <<>>)
            \o TraverseFolders(product_id, items, i + 1, tree_path, parent_folder)

RECURSIVE TraverseFiles(_, _, _, _, _)
\* the second loop of _traverse_tree from index i on
TraverseFiles(product_id, items, i, tree_path, parent_folder) ==
    IF i > Len(items) THEN <<>>
    ELSE (IF IsDownloadable(items[i])
          THEN <<FileTask(product_id, items, i, tree_path, parent_folder)>>
          ELSE <<>>)
            \o TraverseFiles(product_id, items, i + 1, tree_path, parent_folder)

\* _traverse_tree with the loop over the files ahead of the loop over the folders
TraverseTreeFilesFirst(product_id, items, tree_path, parent_folder) ==
    TraverseFiles(product_id, items, 1, tree_path, parent_folder)
        \o TraverseFolders(product_id, items, 1, tree_path, parent_folder)

\* _traverse_tree: the _fancy_download_file calls it makes, in order
TraverseTree(product_id, items, tree_path, parent_folder) ==
    TraverseFolders(product_id, items, 1, tree_path, parent_folder)
        \o TraverseFiles(product_id, items, 1, tree_path, parent_folder)

\* _download_content
DownloadContent(script, parent_folder) ==
    TraverseTree(script.product_id, script.content_items, RootPath, parent_folder)

\* ------------------------------------------------------- bounds and data

MaxListing == 2     \* the purchases of a library listing, the links of a run
MaxChunks == 2      \* the 4 KiB chunks of a body
MaxRuns == 2        \* the invocations of the program in a row

Usernames == {"alice", "bob"}

\* what scrape_library is given when the caller names no creators
Sentinel == [kind |-> "str", elems |-> {}]

\* args.creator: None, or the list argparse builds for -k (nargs="*")
ArgsCreator ==
    {[kind |-> "none", l |-> <<>>],
     [kind |-> "list", l |-> <<>>],
     [kind |-> "list", l |-> <<"alice">>]}

\* _get_creators: a set of the list, and {} (an empty dict) for None
GetCreators(a) ==
    IF a.kind = "list" THEN [kind |-> "set", elems |-> Range(a.l)]
    ELSE [kind |-> "dict", elems |-> {}]

\* creator_username not in creators: against the string ".", a substring test
NotIn(username, c) ==
    IF c.kind = "str" THEN username \notin {"", "."} ELSE username \notin c.elems

\* creators != "."
NotSentinel(c) == c.kind # "str"

\* scrape_library with the bundle test ahead of the creator test
SkipsCreatorNever(username, c) == FALSE

\* the test of scrape_library that skips a purchase for its creator
SkipsCreator(username, c) == NotIn(username, c) /\ NotSentinel(c)

LibraryQuery == "recommended_by=library"

\* one of script["results"]: the fields scrape_library reads
Purchase(p, has_creator, user, query, bundle) ==
    [product |-> p,
     download_url |-> [id |-> p, kind |-> "d"],
     creator |-> [user |-> user, query |-> query, present |-> has_creator],
     is_bundle_purchase |-> bundle]

Purchases ==
    {Purchase("p1", TRUE, "alice", LibraryQuery, FALSE),
     Purchase("p2", TRUE, "bob", LibraryQuery, TRUE),
     Purchase("p2", TRUE, "bob", LibraryQuery, FALSE),
     Purchase("p2", FALSE, "", "", FALSE)}

\* the regular expression of scrape_library on the profile_url, "none" when
\* the creator object is missing or the URL does not end in the query
CreatorUsername(result) ==
    IF result.creator.present /\ result.creator.query = LibraryQuery
    THEN result.creator.user ELSE "none"

SeqsUpTo(S, n) == UNION {[1..k -> S] : k \in 0..n}

\* the listings the library page can hold
LibraryListings == SeqsUpTo(Purchases, MaxListing)

\* a link of the command line: a bare identifier or a product URL
Links == {[id |-> "p1", bare |-> TRUE], [id |-> "p2", bare |-> FALSE]}

LinkLists == SeqsUpTo(Links, MaxListing) \ {<<>>}

\* url.isalnum() and the f-string of scrap_product_page
ProductUrl(link) == [id |-> link.id, kind |-> "d"]

\* url.replace("/d/", "/zip/")
ZipUrl(url) == IF url.kind = "d" THEN [url EXCEPT !.kind = "zip"] ELSE url

\* the labels of the buttons below .actions, word by word
ZipButton == <<"Download", "as", "ZIP">>
OpenButton == <<"Open", "in", "app">>
ButtonRows == {<<>>, <<ZipButton>>, <<OpenButton, ZipButton>>}

\* "ZIP" in action.find(text=True)
HasZip(label) == "ZIP" \in Range(label)

\* the first cell of each .js-file-list-element
TypeZIP == <<" ", "Z", "I", "P">>
TypeRar == <<"R", "a", "r">>
TypePDF == <<"P", "D", "F">>
FileRows == {<<>>, <<TypeZIP>>, <<TypePDF>>, <<TypePDF, TypeRar>>}

ArchivesExt == {<<"r", "a", "r">>, <<"z", "i", "p">>}

\* the content_items a product page can hold
Manifests ==
    {<< FileItem("f1", <<"a">>, TypePDF, "/r/f1") >>,
     << FolderItem(<<"d", " ">>, << FileItem("f2", <<"b">>, TypeRar, "/r/f2") >>),
        FileItem("f3", <<"c">>, TypePDF, Null),
        FileItem("f1", <<"a", "/", "b">>, TypePDF, "/r/f1") >>}

\* items of a content tree: a file whose name has a suffix, a file whose name
\* has a slash, a file with no download_url, an item that is no file and no folder
NamedFile == FileItem("f1", <<"a", ".", "x">>, TypePDF, "/r/f1")
SlashFile == FileItem("f2", <<"b", "/", "c">>, TypeRar, "/r/f2")
PreviewFile == FileItem("f3", <<"c">>, TypePDF, Null)
EmbedItem == [type |-> "embed"]
LeafItems == {NamedFile, SlashFile, PreviewFile, EmbedItem}

\* item["name"] of the folders
FolderNames == {<<"d", " ">>, <<"e", ":">>}

\* item["children"] of the folders: none, files, and folders in folders
FolderChildren ==
    {<<>>,
     <<SlashFile>>,
     <<PreviewFile, NamedFile, SlashFile>>,
     <<FolderItem(<<"g">>, <<>>)>>,
     <<NamedFile, FolderItem(<<"g">>, <<SlashFile, EmbedItem>>),
       FolderItem(<<"h">>, <<FolderItem(<<"g">>, <<NamedFile>>)>>)>>}

TreeItems == LeafItems \cup {FolderItem(n, c) : n \in FolderNames, c \in FolderChildren}

\* the items one level of a tree holds, the names given to sanitize_filename
MaxItems == 2
MaxName == 2

\* script["content"]["content_items"] for the walker on its own
Trees == UNION {[1..k -> TreeItems] : k \in 0..MaxItems}

\* the characters of the names given to sanitize_filename, and the
\* replacement strings a scrapper can be constructed with
NameChars == {"a", "/", "?"}
Names == UNION {[1..k -> NameChars] : k \in 0..MaxName}
Replacements ==
    {<<>>, <<"_">>, <<"/">>, <<"_", "_">>, <<"<", ">">>, <<"a", "/">>}

\* the script of a product page: the fields scrap_product_page reads
Script(p, items) ==
    [product_id |-> p,
     content_items |-> items,
     creator_name |-> <<"A", ":", "l", " ">>,
     product_name |-> <<"P", "?">>]

\* the pages the server can answer a product URL with
Pages(p) ==
    {[script |-> Script(p, m), redirect |-> FALSE, buttons |-> b, rows |-> r] :
        b \in ButtonRows, r \in FileRows, m \in Manifests}

\* the headers and status of a streamed response, lengths in chunks
Responses ==
    {[ok |-> FALSE, has_length |-> FALSE, length |-> 0],
     [ok |-> TRUE, has_length |-> FALSE, length |-> 0]}
        \cup {[ok |-> TRUE, has_length |-> TRUE, length |-> n] : n \in 0..MaxChunks}

\* int(response.headers.get("content-length", 0))
TotalSize(response) == IF response.has_length THEN response.length ELSE 0

\* ---------------------------------------------------- scrap_product_page

\* _content_is_archive with the test on the number of rows off by one
ContentIsArchiveOffByOne(rows) ==
    IF Len(rows) >= 1 THEN "no"
    ELSE IF Len(rows) = 0 THEN "IndexError"
    ELSE IF Lower(Strip(rows[1])) \in ArchivesExt THEN "yes" ELSE "no"

\* _content_is_archive on the rows of the page, "IndexError" with no row
ContentIsArchive(rows) ==
    IF Len(rows) > 1 THEN "no"
    ELSE IF Len(rows) = 0 THEN "IndexError"
    ELSE IF Lower(Strip(rows[1])) \in ArchivesExt THEN "yes" ELSE "no"

RECURSIVE ZipDecision(_, _, _)
\* the loop over the buttons from index i on: "archive", "tree" or the error
ZipDecision(buttons, i, rows) ==
    IF i > Len(buttons) THEN "tree"
    ELSE IF ~HasZip(buttons[i]) THEN ZipDecision(buttons, i + 1, rows)
    ELSE IF ContentIsArchive(rows) = "yes" THEN "tree"
    ELSE IF ContentIsArchive(rows) = "no" THEN "archive"
    ELSE ContentIsArchive(rows)

\* a format string: literal text and replacement fields {name:spec}
Lit(text) == [kind |-> "lit", text |-> text]
Field(name, spec) == [name |-> name, kind |-> "field", spec |-> spec]

\* the template of the model's config.ini, and the templates a user can write
DefaultTemplate == <<Field("product_name", "")>>
Templates ==
    {DefaultTemplate,
     <<Field("product_name", ""), Lit(<<" ">>), Field("uploaded_at", "")>>,
     <<Field("uploaded_at", "%Y"), Lit(<<" ">>), Field("product_name", "")>>,
     <<Field("product_name", ""), Lit(<<" ">>), Field("author", "")>>}

DefaultConfig == [product_folder_tmpl |-> DefaultTemplate]

\* the values of the keyword arguments of format: None, a date, a string
NoneValue == [kind |-> "none"]
DateValue(year, rest) == [kind |-> "date", year |-> year, rest |-> rest]
StrValue(text) == [kind |-> "str", text |-> text]

\* parse_date(...).date() of the purchase and of the product's update, and
\* the price _scrap_recipe_page returns
PurchaseDate == DateValue(<<"2", "3">>, <<"-", "1">>)
UpdatedAt == DateValue(<<"2", "4">>, <<"-", "2">>)
Price == StrValue(<<"$", "9">>)

\* uploaded_at of scrap_product_page: given by scrape_library, None by default
UploadedAt(from) == IF from = "library" THEN UpdatedAt ELSE NoneValue

\* the keyword arguments of product_folder_tmpl.format
FormatArgs(script, uploaded_at) ==
    [product_name |-> StrValue(Sanitize(script.product_name, SlashReplacement)),
     uploaded_at |-> uploaded_at,
     purchase_at |-> PurchaseDate,
     price |-> Price]

\* format(value, spec) of one replacement field
FormatValue(value, spec) ==
    IF value.kind = "none"
    THEN IF spec = "" THEN [kind |-> "ok", text |-> <<"N", "o", "n", "e">>]
         ELSE [kind |-> "TypeError", text |-> <<>>]
    ELSE IF value.kind = "date"
    THEN IF spec = "" THEN [kind |-> "ok", text |-> value.year \o value.rest]
         ELSE [kind |-> "ok", text |-> value.year]
    ELSE IF spec = "" THEN [kind |-> "ok", text |-> value.text]
         ELSE [kind |-> "ValueError", text |-> <<>>]

RECURSIVE Format(_, _)
\* str.format(**kwargs): the fields are replaced from left to right, a name
\* that is no keyword raises KeyError
Format(tmpl, kwargs) ==
    IF tmpl = <<>> THEN [kind |-> "ok", text |-> <<>>]
    ELSE LET part == Head(tmpl)
             first == IF part.kind = "lit" THEN [kind |-> "ok", text |-> part.text]
                      ELSE IF part.name \notin DOMAIN kwargs
                      THEN [kind |-> "KeyError", text |-> <<>>]
                      ELSE FormatValue(kwargs[part.name], part.spec)
             rest == Format(Tail(tmpl), kwargs)
         IN  IF first.kind # "ok" THEN first
             ELSE IF rest.kind # "ok" THEN rest
             ELSE [kind |-> "ok", text |-> first.text \o rest.text]

\* product_folder_tmpl.format(...).strip(), or the exception of format
ProductFolderName(tmpl, kwargs) ==
    LET formatted == Format(tmpl, kwargs)
    IN  IF formatted.kind = "ok"
        THEN [kind |-> "ok", text |-> Strip(formatted.text)]
        ELSE formatted

\* self._root_folder / product_creator / product_folder_name
ProductFolder(script, product_folder_name) ==
    PathJoin(PathJoin(RootFolder,
                      Sanitize(Strip(script.creator_name), SlashReplacement)),
             product_folder_name)

\* the product folder of a page of the library under the default template
DefaultFolder(script) ==
    ProductFolder(script,
                  ProductFolderName(DefaultTemplate, FormatArgs(script, UpdatedAt)).text)

NoScript == Script("", <<>>)

NoProduct ==
    [url |-> [id |-> "", kind |-> ""], script |-> NoScript, buttons |-> <<>>,
     rows |-> <<>>, from |-> "", fetched |-> FALSE, mode |-> "",
     folder |-> <<>>]

NoResponse == [ok |-> FALSE, has_length |-> FALSE, length |-> 0]

NoCreators == [kind |-> "unset", elems |-> {}]

\* no function applied yet
NoValue == [kind |-> "none"]

Rec(level, msg, about) == [level |-> level, msg |-> msg, about |-> about]

\* ------------------------------------------- the FilesCache as an object

\* the variables of the run while only the cache object is exercised
Idle ==
    /\ pc = "idle"
    /\ run = 1
    /\ exc = "none"
    /\ creators = NoCreators
    /\ library = <<>>
    /\ results = <<>>
    /\ links = <<>>
    /\ product = NoProduct
    /\ tasks = <<>>
    /\ resp = NoResponse
    /\ written = 0
    /\ fs = [path \in {} |-> 0]
    /\ net = <<>>
    /\ log = <<>>
    /\ completed = {}
    /\ arg = NoValue
    /\ ret = NoValue
    /\ config = DefaultConfig

InitCache ==
    /\ disk = NoFile
    /\ storage = NewFilesCache(NoFile)
    /\ fresh = EmptyStorage
    /\ phase = "dirty"
    /\ answer = FALSE
    /\ Idle

CacheCall(p, f) ==
    /\ storage' = CacheOp(storage, p, f)
    /\ phase' = "dirty"
    /\ UNCHANGED <<disk, fresh, answer, runVars>>
    /\ UNCHANGED <<pureVars, config>>

SaveCall ==
    /\ disk' \in SaveDocs(storage)
    /\ phase' = "saved"
    /\ UNCHANGED <<storage, fresh, answer, runVars>>
    /\ UNCHANGED <<pureVars, config>>

\* a new process constructs its FilesCache on the same file
FreshInstance ==
    /\ fresh' = NewFilesCache(disk)
    /\ phase' = IF phase = "dirty" THEN "dirty" ELSE "reloaded"
    /\ UNCHANGED <<disk, storage, answer, runVars>>
    /\ UNCHANGED <<pureVars, config>>

LoadCall ==
    /\ storage' = Load(storage, disk)
    /\ phase' = IF storage' = storage THEN phase ELSE "dirty"
    /\ UNCHANGED <<disk, fresh, answer, runVars>>
    /\ UNCHANGED <<pureVars, config>>

IsCachedCall(p, f) ==
    /\ answer' = IsCached(storage, p, f)
    /\ storage' = IsCachedEffect(storage, p)
    /\ UNCHANGED <<disk, fresh, phase, runVars>>
    /\ UNCHANGED <<pureVars, config>>

NextCache ==
    \/ \E p \in ProductIds, f \in FileIds : CacheCall(p, f)
    \/ SaveCall
    \/ FreshInstance
    \/ LoadCall
    \/ \E p \in ProductIds, f \in FileIds : IsCachedCall(p, f)

SpecCache == InitCache /\ [][NextCache]_vars

\* --------------------------------------- the Cache class of misc/cache.py

\* a JSON value of a document: an object (keys to values) or an array
JsonObject(f) == [kind |-> "object", val |-> f]
JsonArray(l) == [kind |-> "array", val |-> l]

\* set(v) of a loaded JSON value: of an object its keys, of an array its elements
SetOfJson(v) == IF v.kind = "object" THEN DOMAIN v.val ELSE Range(v.val)

\* Cache.is_file_cached
CacheIsFileCached(files, p, f) == f \in Get(files, p)

\* Cache.cache_file
CacheCacheFile(files, p, f) ==
    IF p \notin DOMAIN files
    THEN [k \in (DOMAIN files) \cup {p} |-> IF k = p THEN {f} ELSE files[k]]
    ELSE [files EXCEPT ![p] = @ \cup {f}]

\* Cache.save_cache: the documents json.dump can write for the dict data,
\* with the empty _recipes_cache and _status
CacheSaveCache(files) ==
    {[exists |-> TRUE,
      doc |-> [k \in {"files", "recipes", "status"} |->
                IF k = "files" THEN JsonObject([q \in DOMAIN d |-> JsonArray(d[q])])
                ELSE JsonObject(EmptyStorage)],
      torn |-> FALSE] : d \in Dumps(files)}

\* Cache.load_cache: each top-level key of the document becomes a key of
\* _files_cache, its value the set of the JSON value
CacheLoadCache(files, dk) ==
    IF ~dk.exists THEN files
    ELSE [k \in (DOMAIN files) \cup (DOMAIN dk.doc) |->
            IF k \in DOMAIN dk.doc THEN SetOfJson(dk.doc[k]) ELSE files[k]]

\* the cache variables hold a Cache: storage its _files_cache
CacheCacheFileCall(p, f) ==
    /\ storage' = CacheCacheFile(storage, p, f)
    /\ phase' = "dirty"
    /\ UNCHANGED <<disk, fresh, answer, runVars, pureVars, config>>

CacheSaveCacheCall ==
    /\ disk' \in CacheSaveCache(storage)
    /\ phase' = "saved"
    /\ UNCHANGED <<storage, fresh, answer, runVars, pureVars, config>>

\* a fresh Cache loads the file
CacheLoadCacheCall ==
    /\ fresh' = CacheLoadCache(EmptyStorage, disk)
    /\ phase' = IF phase = "dirty" THEN "dirty" ELSE "reloaded"
    /\ UNCHANGED <<disk, storage, answer, runVars, pureVars, config>>

CacheIsFileCachedCall(p, f) ==
    /\ answer' = CacheIsFileCached(storage, p, f)
    /\ UNCHANGED <<disk, storage, fresh, phase, runVars, pureVars, config>>

InitMisc ==
    /\ disk = NoFile
    /\ storage = EmptyStorage
    /\ fresh = EmptyStorage
    /\ phase = "dirty"
    /\ answer = FALSE
    /\ Idle

NextMisc ==
    \/ \E p \in ProductIds, f \in FileIds : CacheCacheFileCall(p, f)
    \/ CacheSaveCacheCall
    \/ CacheLoadCacheCall
    \/ \E p \in ProductIds, f \in FileIds : CacheIsFileCachedCall(p, f)

SpecMisc == InitMisc /\ [][NextMisc]_vars

\* ------------------------------------------- the functions on their own

\* the variables of the cache while a function is applied on its own
NoCache ==
    /\ disk = NoFile
    /\ storage = EmptyStorage
    /\ fresh = EmptyStorage
    /\ phase = "dirty"
    /\ answer = FALSE

\* the run variables of Idle without arg and ret
IdleRun ==
    /\ pc = "idle"
    /\ run = 1
    /\ exc = "none"
    /\ creators = NoCreators
    /\ library = <<>>
    /\ results = <<>>
    /\ links = <<>>
    /\ product = NoProduct
    /\ tasks = <<>>
    /\ resp = NoResponse
    /\ written = 0
    /\ fs = [path \in {} |-> 0]
    /\ net = <<>>
    /\ log = <<>>
    /\ completed = {}

InitPure ==
    /\ NoCache
    /\ IdleRun
    /\ arg \in {[kind |-> "script", script |-> Script("p1", t)] : t \in Trees}
            \cup {[filename |-> x, repl |-> r, kind |-> "name", calls |-> 0] :
                        x \in Names, r \in Replacements}
    /\ ret = NoValue
    /\ config = DefaultConfig

\* the calls _download_content makes until one of them raises
Issued(calls) ==
    IF \E i \in DOMAIN calls : calls[i].kind = "raise"
    THEN SubSeq(calls, 1,
                CHOOSE i \in DOMAIN calls :
                    /\ calls[i].kind = "raise"
                    /\ \A j \in 1..(i - 1) : calls[j].kind # "raise")
    ELSE calls

\* _download_content(script, product_folder) on the script of a product page
DownloadContentCall ==
    /\ arg.kind = "script"
    /\ ret = NoValue
    /\ ret' = [kind |-> "calls",
               parent_folder |-> DefaultFolder(arg.script),
               calls |-> Issued(DownloadContent(arg.script, DefaultFolder(arg.script)))]
    /\ UNCHANGED <<cacheVars, runVars, arg, config>>

\* sanitize_filename on a name, and then on what it returned
SanitizeFilenameCall ==
    /\ arg.kind = "name"
    /\ arg.calls < 2
    /\ ret' = [filename |-> Sanitize(IF arg.calls = 0 THEN arg.filename ELSE ret.filename,
                                     arg.repl),
               kind |-> "name",
               given |-> IF arg.calls = 0 THEN arg.filename ELSE ret.filename]
    /\ arg' = [arg EXCEPT !.calls = @ + 1]
    /\ UNCHANGED <<cacheVars, runVars, config>>

NextPure ==
    \/ DownloadContentCall
    \/ SanitizeFilenameCall

SpecPure == InitPure /\ [][NextPure]_vars

\* -------------------------------------------------------------- the run

\* dl.load_cache(cache_file) of _execute_download
LoadCache(dk) == NewFilesCache(dk)

\* dl.save_cache(cache_file) of _execute_download and of its SIGINT handler
SaveCache(st) == SaveDocs(st)

\* the process was started from run.py (and not by a caller of scrape_library
\* that leaves the creators out)
FromCli == creators.kind # "str"

\* an exception leaves the scrapper: main logs it, and the process ends
Raise(e, recs) ==
    /\ pc' = "exited"
    /\ exc' = e
    /\ log' = log \o recs
                \o (IF FromCli THEN <<Rec("error", "exception", e)>> ELSE <<>>)

\* sys.exit() with no argument: SystemExit is no Exception, main logs nothing
SysExit(recs) ==
    /\ pc' = "exited"
    /\ exc' = "SystemExit"
    /\ log' = log \o recs

\* the status the process ends with, for the way the run ended: sys.exit(1)
\* on FileNotFoundError, 0 from sys.exit() and from a main that returns; a
\* KeyboardInterrupt is passed over under __main__ and uncaught in the
\* console script
ExitCodes(e) ==
    IF e = "FileNotFoundError" THEN {1}
    ELSE IF e = "KeyboardInterrupt" THEN {0, 130}
    ELSE {0}

\* parse_args: the file named by --config or --links does not exist
ParseArgsFails ==
    /\ pc = "main"
    /\ pc' = "exited"
    /\ exc' = "FileNotFoundError"
    /\ UNCHANGED <<cacheVars, run, creators, library, results, links, product, tasks, resp,
                   written, fs, net, log, completed>>
    /\ UNCHANGED <<pureVars, config>>

Init ==
    /\ disk = NoFile
    /\ storage = EmptyStorage
    /\ fresh = EmptyStorage
    /\ phase = "dirty"
    /\ answer = FALSE
    /\ pc = "main"
    /\ run = 1
    /\ exc = "none"
    /\ creators = NoCreators
    /\ library = <<>>
    /\ results = <<>>
    /\ links = <<>>
    /\ product = NoProduct
    /\ tasks = <<>>
    /\ resp = NoResponse
    /\ written = 0
    /\ fs = [path \in {} |-> 0]
    /\ net = <<>>
    /\ log = <<>>
    /\ completed = {}
    /\ arg = NoValue
    /\ ret = NoValue
    /\ config = DefaultConfig

\* _execute_download up to the download loop, for args.creator in args and
\* the links in linkLists: the cache is loaded
ExecuteDownloadOn(args, linkLists) ==
    /\ pc = "main"
    /\ storage' = LoadCache(disk)
    /\ log' = IF disk.exists THEN <<Rec("info", "cache_loaded", "")>> ELSE <<>>
    /\ \/ \E a \in args :
            /\ creators' = GetCreators(a)
            /\ links' = <<>>
            /\ pc' = "library"
       \/ \E l \in linkLists :
            /\ creators' = NoCreators
            /\ links' = l
            /\ pc' = "links"
    /\ UNCHANGED <<disk, fresh, phase, answer, run, exc, library, results, product, tasks,
                   resp, written, fs, net, completed>>
    /\ UNCHANGED <<pureVars, config>>

\* scrape_library() called with its default argument
ScrapeLibraryDefault ==
    /\ pc = "main"
    /\ storage' = NewFilesCache(disk)
    /\ log' = IF disk.exists THEN <<Rec("info", "cache_loaded", "")>> ELSE <<>>
    /\ creators' = Sentinel
    /\ pc' = "library"
    /\ UNCHANGED <<disk, fresh, phase, answer, run, exc, library, results, links, product,
                   tasks, resp, written, fs, net, completed>>
    /\ UNCHANGED <<pureVars, config>>

\* a request sent, and how the server answered it
Request(kind, id, how) == [answer |-> how, id |-> id, kind |-> kind]

\* what the server answered a page request with
Answer(page) == IF page.redirect THEN "redirect" ELSE "ok"

\* a _detect_redirect that finds nothing
DetectRedirectNever(page) == FALSE

\* _detect_redirect on a fetched page
DetectRedirect(page) == page.redirect

\* the page that sends the browser to the login form
RedirectPage == [script |-> NoScript, redirect |-> TRUE, buttons |-> <<>>, rows |-> <<>>]

\* the answers to the request for the library page
LibraryPages(listings) ==
    {[results |-> l, redirect |-> FALSE] : l \in listings}
        \cup {[results |-> <<>>, redirect |-> TRUE]}

\* scrape_library: the library page is fetched and read, the listing it
\* holds one of listings
ScrapeLibraryOn(listings) ==
    /\ pc = "library"
    /\ \/ /\ net' = Append(net, Request("library", "", "error"))
          /\ Raise("HTTPError", <<>>)
          /\ UNCHANGED <<library, results>>
       \/ \E page \in LibraryPages(listings) :
            /\ net' = Append(net, Request("library", "", Answer(page)))
            /\ IF DetectRedirect(page)
               THEN /\ Raise("RuntimeError", <<>>)
                    /\ UNCHANGED <<library, results>>
               ELSE
                 /\ library' = page.results
                 /\ results' = page.results
                 /\ pc' = "results"
                 /\ UNCHANGED <<exc, log>>
    /\ UNCHANGED <<cacheVars, run, creators, links, product, tasks, resp, written,
                   fs, completed>>
    /\ UNCHANGED <<pureVars, config>>

\* scrape_library with no test for bundles
IsBundleNever(result) == FALSE

\* result["purchase"]["is_bundle_purchase"]
IsBundle(result) == result.is_bundle_purchase

\* the warnings of scrape_library about the creator of a result
CreatorWarnings(result) ==
    (IF result.creator.present THEN <<>>
     ELSE <<Rec("warning", "no_creator", result.product)>>)
    \o (IF CreatorUsername(result) = "none"
        THEN <<Rec("warning", "no_profile_url", result.product)>> ELSE <<>>)
    \o (IF result.creator.present THEN <<>>
        ELSE <<Rec("warning", "creator_id", result.product)>>)

\* one round of the loop of scrape_library, up to the call of scrap_product_page
NextResult ==
    /\ pc = "results"
    /\ results # <<>>
    /\ LET result == Head(results) IN
        /\ results' = Tail(results)
        /\ IF SkipsCreator(CreatorUsername(result), creators)
           THEN /\ log' = log \o CreatorWarnings(result)
                        \o <<Rec("debug", "skip_creator", result.product)>>
                /\ UNCHANGED <<pc, product>>
           ELSE IF IsBundle(result)
           THEN /\ log' = log \o CreatorWarnings(result)
                        \o <<Rec("info", "skip_bundle", result.product)>>
                /\ UNCHANGED <<pc, product>>
           ELSE /\ log' = log \o CreatorWarnings(result)
                /\ product' = [NoProduct EXCEPT !.from = "library",
                                                !.url = result.download_url]
                /\ pc' = "page"
    /\ UNCHANGED <<cacheVars, run, exc, creators, library, links, tasks, resp, written,
                   fs, net, completed>>
    /\ UNCHANGED <<pureVars, config>>

\* one round of the loop of _execute_download over the links
NextLink ==
    /\ pc = "links"
    /\ links # <<>>
    /\ links' = Tail(links)
    /\ product' = [NoProduct EXCEPT !.from = "links", !.url = ProductUrl(Head(links))]
    /\ pc' = "page"
    /\ UNCHANGED <<cacheVars, run, exc, creators, library, results, tasks, resp, written,
                   fs, net, log, completed>>
    /\ UNCHANGED <<pureVars, config>>

\* scrap_product_page up to the choice between the archive and the tree, the
\* page one of pages[product_id] or the redirect to the login form
ScrapProductPageOn(pages) ==
    /\ pc = "page"
    /\ LET pageReq(how) == Request("page", product.url.id, how)
           receiptReq(how) == Request("receipt", product.url.id, how)
           scrapping == <<Rec("info", "scrapping", product.url.id)>>
       IN
        \/ /\ net' = Append(net, pageReq("error"))
           /\ Raise("HTTPError", scrapping)
           /\ UNCHANGED product
        \/ \E page \in pages[product.url.id] \cup {RedirectPage} :
            IF DetectRedirect(page)
            THEN /\ net' = Append(net, pageReq(Answer(page)))
                 /\ Raise("RuntimeError", scrapping)
                 /\ UNCHANGED product
            ELSE \/ /\ net' = net \o <<pageReq(Answer(page)), receiptReq("error")>>
                    /\ Raise("HTTPError", scrapping)
                    /\ UNCHANGED product
                 \/ /\ net' = net \o <<pageReq(Answer(page)), receiptReq("ok")>>
                    /\ LET name == ProductFolderName(
                                        config.product_folder_tmpl,
                                        FormatArgs(page.script, UploadedAt(product.from)))
                           mode == ZipDecision(page.buttons, 1, page.rows)
                       IN
                        IF name.kind = "TypeError"
                        THEN /\ SysExit(scrapping
                                        \o <<Rec("info", "no_uploaded_at", product.url.id)>>)
                             /\ UNCHANGED product
                        ELSE IF name.kind # "ok"
                        THEN /\ Raise(name.kind, scrapping)
                             /\ UNCHANGED product
                        ELSE
                        /\ product' = [product EXCEPT
                                            !.fetched = TRUE,
                                            !.buttons = page.buttons,
                                            !.rows = page.rows,
                                            !.mode = mode,
                                            !.script = page.script,
                                            !.folder = ProductFolder(page.script, name.text)]
                        /\ IF mode = "IndexError"
                           THEN Raise("IndexError", scrapping)
                           ELSE /\ pc' = "decided"
                                /\ log' = log \o scrapping
                                /\ UNCHANGED exc
    /\ UNCHANGED <<cacheVars, run, creators, library, results, links, tasks, resp, written,
                   fs, completed>>
    /\ UNCHANGED <<pureVars, config>>

\* the archive branch: _fancy_download_file is called with three positional
\* arguments where it takes five, which is a TypeError at the call
ArchiveDownload ==
    /\ pc = "decided"
    /\ product.mode = "archive"
    /\ Raise("TypeError", <<Rec("info", "as_zip", product.url.id)>>)
    /\ UNCHANGED <<cacheVars, run, creators, library, results, links, product, tasks, resp,
                   written, fs, net, completed>>
    /\ UNCHANGED <<pureVars, config>>

\* the tree branch: _download_content walks the content_items
TreeDownload ==
    /\ pc = "decided"
    /\ product.mode = "tree"
    /\ log' = Append(log, Rec("info", "downloading", product.url.id))
    /\ tasks' = DownloadContent(product.script, product.folder)
    /\ product' = [product EXCEPT !.buttons = <<>>, !.rows = <<>>]
    /\ pc' = "tasks"
    /\ UNCHANGED <<cacheVars, run, exc, creators, library, results, links, resp, written,
                   fs, net, completed>>
    /\ UNCHANGED <<pureVars, config>>

\* the guard taking a missing content-length for a length to read
IsZeroLengthHeaderOnly(response) == response.has_length /\ response.length = 0

\* total_size_in_bytes == 0
IsZeroLength(response) == TotalSize(response) = 0

\* file_path.open("wb"): the file is created, or cut to no chunk
OpenWb(files, path) ==
    [q \in (DOMAIN files) \cup {path} |-> IF q = path THEN 0 ELSE files[q]]

\* _fancy_download_file up to the first chunk
FancyDownloadFile ==
    /\ pc = "tasks"
    /\ tasks # <<>>
    /\ LET task == Head(tasks) IN
        IF task.kind = "raise"
        THEN /\ Raise(task.exc, <<>>)
             /\ UNCHANGED <<tasks, resp, written, fs, net>>
        ELSE IF IsCached(storage, task.product_id, task.file_id)
        THEN /\ log' = Append(log, Rec("debug", "already_downloaded", task.file_id))
             /\ tasks' = Tail(tasks)
             /\ UNCHANGED <<pc, exc, resp, written, fs, net>>
        ELSE /\ \E response \in Responses :
                 /\ net' = Append(net, Request(task.url.kind, task.url.id,
                                               IF response.ok THEN "ok" ELSE "error"))
                 /\ resp' = response
                 /\ IF ~response.ok
                    THEN /\ Raise("HTTPError", <<>>)
                         /\ UNCHANGED <<tasks, written, fs>>
                    ELSE IF IsZeroLength(response)
                    THEN /\ log' = Append(log, Rec("warning", "zero_length", task.file_id))
                         /\ tasks' = Tail(tasks)
                         /\ UNCHANGED <<pc, exc, written, fs>>
                    ELSE /\ fs' = OpenWb(fs, task.file_path)
                         /\ written' = 0
                         /\ pc' = "stream"
                         /\ UNCHANGED <<exc, log, tasks>>
    /\ UNCHANGED <<cacheVars, run, creators, library, results, links, product, completed>>
    /\ UNCHANGED <<pureVars, config>>

\* the mark made while chunks are still to come
BodyWrittenEarly(w, response) == w <= response.length

\* the with block is left: iter_content has given its last chunk
BodyWritten(w, response) == w = response.length

\* one chunk of the body is written to the file
WriteChunk ==
    /\ pc = "stream"
    /\ written < resp.length
    /\ LET task == Head(tasks) IN
        /\ written' = written + 1
        /\ fs' = [fs EXCEPT ![task.file_path] = @ + 1]
        /\ completed' = IF written' = resp.length
                        THEN completed \cup {<<task.product_id, task.file_id>>}
                        ELSE completed
    /\ UNCHANGED <<cacheVars, pc, run, exc, creators, library, results, links, product,
                   tasks, resp, net, log>>
    /\ UNCHANGED <<pureVars, config>>

\* the connection breaks while the body is read
TransportError ==
    /\ pc = "stream"
    /\ written < resp.length
    /\ Raise("ConnectionError", <<>>)
    /\ UNCHANGED <<cacheVars, run, creators, library, results, links, product, tasks, resp,
                   written, fs, net, completed>>
    /\ UNCHANGED <<pureVars, config>>

\* self._files_cache.cache(product_id, file_id)
MarkCached ==
    /\ pc = "stream"
    /\ BodyWritten(written, resp)
    /\ LET task == Head(tasks) IN
        storage' = CacheOp(storage, task.product_id, task.file_id)
    /\ pc' = "save"
    /\ UNCHANGED <<disk, fresh, phase, answer, run, exc, creators, library, results, links,
                   product, tasks, resp, written, fs, net, log, completed>>
    /\ UNCHANGED <<pureVars, config>>

\* self._files_cache.save() and the rest of _fancy_download_file
SaveCached ==
    /\ pc = "save"
    /\ disk' \in SaveDocs(storage)
    /\ log' = log \o <<Rec("info", "cache_saved", ""),
                       Rec("info", "downloaded", Head(tasks).file_id)>>
    /\ tasks' = Tail(tasks)
    /\ resp' = NoResponse
    /\ written' = 0
    /\ pc' = "tasks"
    /\ UNCHANGED <<storage, fresh, phase, answer, run, exc, creators, library, results,
                   links, product, fs, net, completed>>
    /\ UNCHANGED <<pureVars, config>>

\* self._files_cache.save() up to json.dump: open(path, "w") cuts the file
SaveOpen ==
    /\ pc = "save"
    /\ disk' = TornFile
    /\ pc' = "saving"
    /\ UNCHANGED <<storage, fresh, phase, answer, run, exc, creators, library, results,
                   links, product, tasks, resp, written, fs, net, log, completed>>
    /\ UNCHANGED <<pureVars, config>>

\* json.dump and the end of the with block of save(), and the rest of
\* _fancy_download_file
SaveDump ==
    /\ pc = "saving"
    /\ disk' \in SaveDocs(storage)
    /\ log' = log \o <<Rec("info", "cache_saved", ""),
                       Rec("info", "downloaded", Head(tasks).file_id)>>
    /\ tasks' = Tail(tasks)
    /\ resp' = NoResponse
    /\ written' = 0
    /\ pc' = "tasks"
    /\ UNCHANGED <<storage, fresh, phase, answer, run, exc, creators, library, results,
                   links, product, fs, net, completed>>
    /\ UNCHANGED <<pureVars, config>>

\* scrap_product_page returns to the loop that called it
ProductDone ==
    /\ pc = "tasks"
    /\ tasks = <<>>
    /\ pc' = IF product.from = "library" THEN "results" ELSE "links"
    /\ UNCHANGED <<cacheVars, run, exc, creators, library, results, links, product, tasks, resp,
                   written, fs, net, log, completed>>
    /\ UNCHANGED <<pureVars, config>>

\* the loop is over: _execute_download saves the cache and main returns
FinishRun ==
    /\ \/ pc = "results" /\ results = <<>>
       \/ pc = "links" /\ links = <<>>
    /\ IF FromCli THEN disk' \in SaveCache(storage) ELSE UNCHANGED disk
    /\ pc' = "exited"
    /\ UNCHANGED <<storage, fresh, phase, answer, run, exc, creators, library, results,
                   links, product, tasks, resp, written, fs, net, log, completed>>
    /\ UNCHANGED <<pureVars, config>>

Running == pc \in {"library", "results", "links", "page", "decided", "tasks",
                   "stream", "save", "saving"}

\* _sigint_handler without its call of dl.save_cache
SigintHandlerNoSave(st, dk) == {dk}

\* _sigint_handler up to the original handler: the files dl.save_cache can
\* leave. A save that the signal cut short writes, when its file is closed
\* on the way out, the start of the same document over the one of the handler
SigintHandler(st, dk) == SaveCache(st)

\* SIGINT: _sigint_handler saves the cache, then KeyboardInterrupt ends the run
Sigint ==
    /\ Running
    /\ disk' \in (IF FromCli THEN SigintHandler(storage, disk) ELSE {disk})
    /\ pc' = "exited"
    /\ exc' = "KeyboardInterrupt"
    /\ UNCHANGED <<storage, fresh, phase, answer, run, creators, library, results, links,
                   product, tasks, resp, written, fs, net, log, completed>>
    /\ UNCHANGED <<pureVars, config>>

\* the program is started again: the cache file and the downloads remain
Restart ==
    /\ pc = "exited"
    /\ run < MaxRuns
    /\ run' = run + 1
    /\ pc' = "main"
    /\ exc' = "none"
    /\ storage' = EmptyStorage
    /\ creators' = NoCreators
    /\ library' = <<>>
    /\ results' = <<>>
    /\ links' = <<>>
    /\ product' = NoProduct
    /\ tasks' = <<>>
    /\ resp' = NoResponse
    /\ written' = 0
    /\ net' = <<>>
    /\ log' = <<>>
    /\ UNCHANGED <<disk, fresh, phase, answer, fs, completed>>
    /\ UNCHANGED <<pureVars, config>>

ExecuteDownload == ExecuteDownloadOn(ArgsCreator, LinkLists)

ScrapeLibrary == ScrapeLibraryOn(LibraryListings)

ScrapProductPage == ScrapProductPageOn([p \in ProductIds |-> Pages(p)])

Next ==
    \/ ParseArgsFails
    \/ ExecuteDownload
    \/ ScrapeLibraryDefault
    \/ ScrapeLibrary
    \/ NextResult
    \/ NextLink
    \/ ScrapProductPage
    \/ ArchiveDownload
    \/ TreeDownload
    \/ FancyDownloadFile
    \/ WriteChunk
    \/ TransportError
    \/ MarkCached
    \/ SaveCached
    \/ ProductDone
    \/ FinishRun
    \/ Sigint

\* one invocation of the program, from no cache file
Spec == Init /\ [][Next]_vars

\* ---------------------------------------------- invocations in a row

\* the inputs of the invocations in a row: links, or the library of alice,
\* and product pages with no ZIP button
RunArgs == {[kind |-> "list", l |-> <<"alice">>]}

RunListings == SeqsUpTo({Purchase("p1", TRUE, "alice", LibraryQuery, FALSE)}, MaxListing)

RunLinkLists == SeqsUpTo({[id |-> "p1", bare |-> TRUE]}, MaxListing) \ {<<>>}

RunPages(p) ==
    {[script |-> Script(p, m), redirect |-> FALSE, buttons |-> <<>>,
      rows |-> <<TypePDF>>] : m \in Manifests}

ExecuteDownloadAgain == ExecuteDownloadOn(RunArgs, RunLinkLists)

ScrapeLibraryAgain == ScrapeLibraryOn(RunListings)

ScrapProductPageAgain == ScrapProductPageOn([p \in ProductIds |-> RunPages(p)])

NextRuns ==
    \/ ParseArgsFails
    \/ ExecuteDownloadAgain
    \/ ScrapeLibraryAgain
    \/ NextResult
    \/ NextLink
    \/ ScrapProductPageAgain
    \/ TreeDownload
    \/ FancyDownloadFile
    \/ WriteChunk
    \/ TransportError
    \/ MarkCached
    \/ SaveCached
    \/ ProductDone
    \/ FinishRun
    \/ Sigint
    \/ Restart

\* invocations of the program one after the other, on the same cache file
SpecRuns == Init /\ [][NextRuns]_vars

\* ------------------------------- invocations in a row, save() in two steps

NextInterrupts ==
    \/ ParseArgsFails
    \/ ExecuteDownloadAgain
    \/ ScrapeLibraryAgain
    \/ NextResult
    \/ NextLink
    \/ ScrapProductPageAgain
    \/ TreeDownload
    \/ FancyDownloadFile
    \/ WriteChunk
    \/ TransportError
    \/ MarkCached
    \/ SaveOpen
    \/ SaveDump
    \/ ProductDone
    \/ FinishRun
    \/ Sigint
    \/ Restart

\* as SpecRuns, with a signal that can cut save() between open and json.dump
SpecInterrupts == Init /\ [][NextInterrupts]_vars

\* ------------------------------------------- runs under a user's template

InitTemplates ==
    /\ NoCache
    /\ pc = "main"
    /\ run = 1
    /\ exc = "none"
    /\ creators = NoCreators
    /\ library = <<>>
    /\ results = <<>>
    /\ links = <<>>
    /\ product = NoProduct
    /\ tasks = <<>>
    /\ resp = NoResponse
    /\ written = 0
    /\ fs = [path \in {} |-> 0]
    /\ net = <<>>
    /\ log = <<>>
    /\ completed = {}
    /\ arg = NoValue
    /\ ret = NoValue
    /\ config \in {[product_folder_tmpl |-> t] : t \in Templates}

NextTemplates ==
    \/ ParseArgsFails
    \/ ExecuteDownloadAgain
    \/ ScrapeLibraryAgain
    \/ NextResult
    \/ NextLink
    \/ ScrapProductPageAgain
    \/ TreeDownload
    \/ FancyDownloadFile
    \/ WriteChunk
    \/ TransportError
    \/ MarkCached
    \/ SaveCached
    \/ ProductDone
    \/ FinishRun
    \/ Sigint

\* one invocation of the program under each of the templates
SpecTemplates == InitTemplates /\ [][NextTemplates]_vars

\* ------------------------------------------------------------ properties

\* the call of _fancy_download_file under way, or about to be made
InFlight ==
    IF tasks # <<>> /\ Head(tasks).kind = "download"
    THEN {<<Head(tasks).product_id, Head(tasks).file_id>>} ELSE {}

\* the storage holds the file of the call about to be made
HeadInStorage ==
    /\ tasks # <<>>
    /\ Head(tasks).kind = "download"
    /\ Head(tasks).product_id \in DOMAIN storage
    /\ Head(tasks).file_id \in storage[Head(tasks).product_id]

LastLog(l, msg) == l # <<>> /\ l[Len(l)].msg = msg

Count(l, msg, about) ==
    Cardinality({i \in DOMAIN l : l[i].msg = msg /\ l[i].about = about})

Requests(kind) == {i \in DOMAIN net : net[i].kind = kind}

\* C1: a fresh FilesCache constructed on the file right after save() answers
\* is_cached(p, f) as the saving instance does, for every p and f
C1_ReloadAgrees ==
    phase = "reloaded" =>
        \A p \in ProductIds, f \in FileIds :
            IsCached(fresh, p, f) = IsCached(storage, p, f)

C1_Witness ==
    /\ phase = "reloaded"
    /\ DOMAIN storage = {"p1"}
    /\ storage["p1"] = {"f1", "f2"}
    /\ IsCached(fresh, "p1", "f1")
    /\ IsCached(fresh, "p1", "f2")
    /\ ~IsCached(fresh, "p1", "f3")

C2_State ==
    /\ Pairs(storage) \subseteq completed
    /\ DiskPairs(disk) \subseteq completed
    /\ Pairs(storage) \ DiskPairs(disk) \subseteq InFlight
    /\ (Running /\ pc # "save") => Pairs(storage) = DiskPairs(disk)

C2_Step ==
    /\ DiskPairs(disk) \subseteq DiskPairs(disk')
    /\ Pairs(storage') # Pairs(storage) /\ pc = "stream" =>
            /\ written = resp.length
            /\ pc' = "save"
            /\ Pairs(storage') = Pairs(storage) \cup InFlight
    /\ pc = "save" => InFlight \subseteq DiskPairs(disk')

\* C2: every pair in the in-memory or on-disk cache belongs to a file whose
\* body was written in full, also after an interruption or a transport error
\* at any point of a transfer; the mark is made after the last chunk and the
\* save right after the mark, and no pair on disk is ever lost
C2_CachedAreComplete == []C2_State /\ [][C2_Step]_vars

C2_Witness ==
    /\ pc = "exited"
    /\ exc = "ConnectionError"
    /\ run = 2
    /\ DiskPairs(disk) # {}
    /\ InFlight # {}
    /\ InFlight \cap completed = {}
    /\ InFlight \cap DiskPairs(disk) = {}
    /\ fs[Head(tasks).file_path] < resp.length

\* C3: a non-2xx answer to the GET of one file does not end the run while
\* sibling files of the product and products of the listing are still to come
C3_FileFailureConfined ==
    (/\ net # <<>>
     /\ net[Len(net)].kind = "file"
     /\ net[Len(net)].answer = "error"
     /\ Len(tasks) > 1
     /\ results # <<>>)
        => ~(pc = "exited" /\ exc = "HTTPError")

\* C4: a redirect to the login page, on the library page or on a product
\* page, is the last request of the run: the run is over with the
\* RuntimeError, nothing is fetched, downloaded or cached after it
C4_RedirectAborts ==
    \A i \in DOMAIN net :
        net[i].answer = "redirect" =>
            /\ i = Len(net)
            /\ pc = "exited"
            /\ exc = "RuntimeError"

C4_Witness ==
    /\ pc = "exited"
    /\ exc = "RuntimeError"
    /\ net[Len(net)].kind = "page"
    /\ net[Len(net)].answer = "redirect"
    /\ results # <<>>

\* C5: _fancy_download_file called for a cached (product_id, file_id) sends
\* no request, leaves every file as it is and leaves the cache as it is
C5_SkipOnCache ==
    [][(pc = "tasks" /\ HeadInStorage /\ pc' # "exited") =>
            /\ net' = net
            /\ fs' = fs
            /\ storage' = storage
            /\ disk' = disk
            /\ tasks' = Tail(tasks)]_vars

C5_Witness ==
    /\ run = 2
    /\ pc = "tasks"
    /\ LastLog(log, "already_downloaded")
    /\ net # <<>>
    /\ Requests("file") = {}
    /\ \E path \in DOMAIN fs : fs[path] > 0

\* the step is a call of _fancy_download_file that was answered with a
\* content-length of 0 or with none
ZeroLengthStep ==
    /\ pc = "tasks"
    /\ Len(net') > Len(net)
    /\ resp'.ok
    /\ (~resp'.has_length \/ resp'.length = 0)

\* C6: a response with content-length 0 or with none writes no file, marks
\* and saves nothing and logs a warning, and a file that is not cached is
\* requested when its call comes
C6_ZeroLengthGuard ==
    [][/\ ZeroLengthStep =>
            /\ fs' = fs
            /\ storage' = storage
            /\ disk' = disk
            /\ log' = Append(log, Rec("warning", "zero_length", Head(tasks).file_id))
            /\ InFlight \cap (Pairs(storage') \cup DiskPairs(disk')) = {}
            /\ pc' = "tasks"
       /\ (pc = "tasks" /\ InFlight # {} /\ ~HeadInStorage
                /\ exc' # "KeyboardInterrupt") =>
            /\ Len(net') = Len(net) + 1
            /\ net'[Len(net')].kind = "file"
            /\ net'[Len(net')].id = Head(tasks).url.id]_vars

C6_Witness ==
    /\ run = 2
    /\ pc = "tasks"
    /\ LastLog(log, "zero_length")
    /\ ~resp.has_length
    /\ DOMAIN fs = {}
    /\ DiskPairs(disk) = {}

\* C7: a purchase is skipped for its creator exactly when the filter names
\* creators and the creator of the purchase is none of them
C7_CreatorFilter ==
    [][(pc = "results" /\ results # <<>> /\ results' = Tail(results)) =>
            ((Len(log') > Len(log) /\ LastLog(log', "skip_creator"))
                <=> (/\ creators.elems # {}
                     /\ CreatorUsername(Head(results)) \notin creators.elems))]_vars

HasZipButton(buttons) == \E i \in DOMAIN buttons : "ZIP" \in Range(buttons[i])

\* C8: with a ZIP button and one row of an archive type the tree is walked,
\* with a ZIP button and more than one row the archive is taken, with no ZIP
\* button the tree is walked
C8_ArchiveOrTree ==
    (product.fetched /\ product.mode # "IndexError") =>
        /\ (/\ HasZipButton(product.buttons)
            /\ Len(product.rows) = 1
            /\ product.rows[1] \in {TypeZIP, TypeRar}) => product.mode = "tree"
        /\ (HasZipButton(product.buttons) /\ Len(product.rows) > 1)
                => product.mode = "archive"
        /\ ~HasZipButton(product.buttons) => product.mode = "tree"

C8_Witness ==
    /\ pc = "decided"
    /\ product.buttons = <<OpenButton, ZipButton>>
    /\ product.rows = <<TypeZIP>>
    /\ product.mode = "tree"

\* C9: a product scrapped in archive mode is over with its zip URL requested
C9_ArchiveDownloaded ==
    (pc = "exited" /\ product.mode = "archive" /\ exc # "KeyboardInterrupt") =>
        /\ exc = "none"
        /\ \E i \in Requests("zip") : net[i].id = product.url.id

\* the library of the scenario: alice's purchase and bob's bundle, filter alice
Scenario ==
    /\ creators = [kind |-> "set", elems |-> {"alice"}]
    /\ library \in
        {<<Purchase("p1", TRUE, "alice", LibraryQuery, FALSE),
           Purchase("p2", TRUE, "bob", LibraryQuery, TRUE)>>,
         <<Purchase("p2", TRUE, "bob", LibraryQuery, TRUE),
           Purchase("p1", TRUE, "alice", LibraryQuery, FALSE)>>}
    /\ pc = "exited"
    /\ exc = "none"
    /\ product.fetched
    /\ Len(product.script.content_items) = 1
    /\ Count(log, "zero_length", "f1") = 0

ScenarioCounts ==
    /\ Cardinality(Requests("page")) = 1
    /\ net[CHOOSE i \in Requests("page") : TRUE].id = "p1"
    /\ Cardinality(Requests("file")) = 1
    /\ DiskPairs(disk) = {<<"p1", "f1">>}
    /\ Count(log, "downloaded", "f1") = 1

\* C10 as amended: in the scenario one product is scrapped, one file is
\* requested, one cache entry is written, and bob's purchase is skipped by
\* the creator filter, with no line about a bundle
C10_Scenario ==
    Scenario =>
        /\ ScenarioCounts
        /\ Count(log, "skip_creator", "p2") = 1
        /\ Count(log, "skip_bundle", "p2") = 0

\* C10 as stated: ... and one line says bob's purchase is skipped as a bundle
C10_AsStated ==
    Scenario =>
        /\ ScenarioCounts
        /\ Count(log, "skip_bundle", "p2") = 1

C10_Witness == Scenario /\ ScenarioCounts

\* ------------------------------------------------- the walker on its own

RECURSIVE NodePaths(_)
\* the places of a tree: for each item the indices that lead to it from the top
NodePaths(items) ==
    UNION {{<<i>>} \cup
           (IF items[i].type = "folder"
            THEN {<<i>> \o q : q \in NodePaths(items[i].children)} ELSE {}) :
           i \in DOMAIN items}

RECURSIVE ItemAt(_, _)
ItemAt(items, q) ==
    IF Len(q) = 1 THEN items[q[1]] ELSE ItemAt(items[q[1]].children, Tail(q))

RECURSIVE LevelAt(_, _)
\* the items of the level the place q is in
LevelAt(items, q) ==
    IF Len(q) = 1 THEN items ELSE LevelAt(items[q[1]].children, Tail(q))

RECURSIVE EnclosingFolders(_, _)
\* the names of the folders around the place q, outermost first, stripped
EnclosingFolders(items, q) ==
    IF Len(q) = 1 THEN <<>>
    ELSE <<Strip(items[q[1]].name)>> \o EnclosingFolders(items[q[1]].children, Tail(q))

\* the places of the file items that have a download_url
FileNodes(items) ==
    {q \in NodePaths(items) :
        ItemAt(items, q).type = "file" /\ ItemAt(items, q).download_url # Null}

\* a file name up to its last suffix
Stem(name) ==
    LET dots == {i \in 2..(Len(name) - 1) : name[i] = "."}
    IN  IF dots = {} THEN name
        ELSE SubSeq(name, 1, (CHOOSE i \in dots : \A j \in dots : j <= i) - 1)

\* the call a file item at place q is to get: its id and its destination
ExpectedCall(items, parent_folder, q) ==
    LET item == ItemAt(items, q)
    IN  [file_id |-> item.id,
         file_path |-> parent_folder \o EnclosingFolders(items, q)
                        \o <<Stem(Sanitize(item.file_name, SlashReplacement))
                                \o <<".">> \o Lower(item.extension)>>]

CallOf(call) == [file_id |-> call.file_id, file_path |-> call.file_path]

Walked == ret.kind = "calls"

WalkedItems == arg.script.content_items

References(tmpl, name) ==
    \E i \in DOMAIN tmpl : tmpl[i].kind = "field" /\ tmpl[i].name = name

\* the placeholders the template may use
FolderFields == {"product_name", "purchase_at", "uploaded_at", "price"}

\* the template names a field that the product being scrapped cannot give
MissingField ==
    \/ /\ product.from = "links"
       /\ References(config.product_folder_tmpl, "uploaded_at")
    \/ \E i \in DOMAIN config.product_folder_tmpl :
            /\ config.product_folder_tmpl[i].kind = "field"
            /\ config.product_folder_tmpl[i].name \notin FolderFields

\* C12: under a template that names uploaded_at, for a product given by a
\* link, or that names an unknown field, no product folder is built, no call
\* of the download engine is made and no file is written
C12_TemplateAllOrNothing ==
    MissingField =>
        /\ ~product.fetched
        /\ product.folder = <<>>
        /\ tasks = <<>>
        /\ DOMAIN fs = {}

\* a configuration error ended the run: a missing file, or a template that
\* could not be evaluated
ConfigurationError == exc \in {"FileNotFoundError", "SystemExit", "KeyError"}

\* C13: the process ends with a status other than 0 exactly when a
\* configuration error ended the run
C13_ExitStatus ==
    (pc = "exited" /\ exc # "KeyboardInterrupt") =>
        \A code \in ExitCodes(exc) : (code # 0) <=> ConfigurationError

\* --------------------------------------------- the Cache of misc/cache.py

\* C14: a fresh Cache that loads the file save_cache wrote answers
\* is_file_cached as the saving Cache does, for every pair
C14_CacheRoundTrip ==
    phase = "reloaded" =>
        \A p \in ProductIds, f \in FileIds :
            CacheIsFileCached(fresh, p, f) = CacheIsFileCached(storage, p, f)

\* ------------------------------------------------------ the exit paths

\* the run is over and was started by _execute_download
Exited == pc = "exited" /\ FromCli

\* C15: however a download run ends, the cache file is whole and holds every
\* pair the run marked; and a call for a pair that is on disk sends no request
C15_ExitState ==
    Exited =>
        /\ ~disk.torn
        /\ Pairs(storage) \subseteq DiskPairs(disk)

C15_NoRedownload ==
    (pc = "tasks" /\ InFlight # {} /\ InFlight \subseteq DiskPairs(disk)) => net' = net

SanitizedTwice == arg.kind = "name" /\ arg.calls = 2

\* the replacement string holds none of the invalid characters
CleanReplacement(repl) == Range(repl) \cap InvalidChars = {}

\* C16 as amended: with a replacement string that holds no invalid character,
\* sanitize_filename applied to its own result returns it unchanged
C16_Idempotent ==
    (SanitizedTwice /\ CleanReplacement(arg.repl)) => ret.filename = ret.given

\* C16 as stated: the same for every replacement string
C16_AsStated ==
    SanitizedTwice => ret.filename = ret.given

C16_Witness ==
    /\ SanitizedTwice
    /\ arg.repl = <<"_", "_">>
    /\ arg.filename = <<"/", "?">>
    /\ ret.given = <<"_", "_", "_", "_">>
    /\ ret.filename = ret.given

\* ------------------------------------------------------------- bundles

\* the run scrapes the library
LibraryRun == creators.kind # "unset"

\* every product page requested belongs to a purchase of the listing that is
\* no bundle
C17_State ==
    LibraryRun =>
        \A i \in Requests("page") :
            \E j \in DOMAIN library :
                /\ library[j].download_url.id = net[i].id
                /\ ~library[j].is_bundle_purchase

\* the round of the loop on a bundle purchase sends no request, writes no
\* file, marks and saves nothing, raises nothing and goes on with the next
C17_Step ==
    (/\ pc = "results"
     /\ results # <<>>
     /\ Head(results).is_bundle_purchase
     /\ results' = Tail(results)) =>
        /\ pc' = "results"
        /\ exc' = exc
        /\ net' = net
        /\ fs' = fs
        /\ storage' = storage
        /\ disk' = disk
        /\ tasks' = tasks
        /\ \A i \in (Len(log) + 1)..Len(log') : log'[i].level # "error"

\* C17: scrape_library fetches no page, downloads no file and writes no
\* cache entry for a bundle purchase, raises nothing for it and goes on with
\* the next purchase
C17_BundlesSkipped == []C17_State /\ [][C17_Step]_vars

C17_Witness ==
    /\ LibraryRun
    /\ Len(library) = 2
    /\ library[1].is_bundle_purchase
    /\ Count(log, "skip_bundle", library[1].product) = 1
    /\ \E i \in Requests("page") : net[i].id = library[2].download_url.id
    /\ \A i \in Requests("page") : net[i].id # library[1].download_url.id
    /\ exc = "none"

\* ------------------------------------------- numbering, names and order

\* the downloadable files of the level of the place q, up to q
PositionInSiblings(items, q) ==
    LET level == LevelAt(items, q)
    IN  Cardinality({j \in 1..q[Len(q)] :
            level[j].type = "file" /\ level[j].download_url # Null})

\* the downloadable files of the level of the place q
SiblingCount(items, q) ==
    LET level == LevelAt(items, q)
    IN  Cardinality({j \in DOMAIN level :
            level[j].type = "file" /\ level[j].download_url # Null})

\* C18: the call for a file carries its 1-based position among the files of
\* its level that get a call, in the order of the items, and the number of
\* those files, so that the last call of a level has a position equal to
\* the count
C18_ProgressNumbering ==
    Walked =>
        \A q \in FileNodes(WalkedItems) :
            \E i \in DOMAIN ret.calls :
                /\ CallOf(ret.calls[i]) = ExpectedCall(WalkedItems, ret.parent_folder, q)
                /\ ret.calls[i].file_idx = PositionInSiblings(WalkedItems, q)
                /\ ret.calls[i].files_total_count = SiblingCount(WalkedItems, q)

\* C19: no component below the root folder of a destination holds an invalid
\* character, the replacement string holding none
C19_ComponentsSanitized ==
    (Walked /\ CleanReplacement(SlashReplacement)) =>
        \A i \in DOMAIN ret.calls :
            \A k \in (Len(RootFolder) + 1)..Len(ret.calls[i].file_path) :
                Range(ret.calls[i].file_path[k]) \cap InvalidChars = {}

\* the place q comes ahead of the place r: at the level where they part, what
\* is in a subfolder comes ahead of the files of the level, and otherwise the
\* order of the items decides
Before(q, r) ==
    \E k \in 1..Len(q) :
        /\ k <= Len(r)
        /\ SubSeq(q, 1, k - 1) = SubSeq(r, 1, k - 1)
        /\ q[k] # r[k]
        /\ \/ Len(q) > k /\ Len(r) = k
           \/ (Len(q) > k) = (Len(r) > k) /\ q[k] < r[k]

\* the number of the call of the file at the place q
Rank(items, q) == 1 + Cardinality({r \in FileNodes(items) : Before(r, q)})

\* C20: the calls for what subfolders hold, subfolders in the order of the
\* items, come ahead of the calls for the files of the level, and the files
\* of one level get their calls in the order of the items
C20_FoldersBeforeFiles ==
    Walked =>
        \A q \in FileNodes(WalkedItems) :
            /\ Rank(WalkedItems, q) \in DOMAIN ret.calls
            /\ CallOf(ret.calls[Rank(WalkedItems, q)])
                    = ExpectedCall(WalkedItems, ret.parent_folder, q)

C20_Witness ==
    /\ Walked
    /\ Len(WalkedItems) = 2
    /\ WalkedItems[1] = NamedFile
    /\ WalkedItems[2].type = "folder"
    /\ Len(WalkedItems[2].children) = 3
    /\ Len(ret.calls) = 4
    /\ ret.calls[1].file_id = "f2"
    /\ ret.calls[4].file_id = "f1"
    /\ Len(ret.calls[4].file_path) = Len(ret.parent_folder) + 1

\* ------------------------------------------- the life of a cache entry

\* C21: over load, cache, is_cached and save on one FilesCache, a pair that
\* is_cached answers TRUE for is answered TRUE for in every later state
C21_AppendOnly == [][Pairs(storage) \subseteq Pairs(storage')]_vars

\* no product has an entry that holds no file, in the mapping or in the file
NoEmptyEntry ==
    /\ \A k \in DOMAIN storage : storage[k] # {}
    /\ \A k \in DOMAIN disk.doc : disk.doc[k] # <<>>

\* a call that changes the answer is an is_cached call: it leaves the mapping
\* as it was, and with it what save() writes; the mapping changes with a
\* cache or a load only
QueryChangesNothing ==
    /\ answer' # answer =>
            /\ storage' = storage
            /\ SaveDocs(storage') = SaveDocs(storage)
            /\ disk' = disk
    /\ storage' # storage =>
            \/ \E pf \in ProductIds \X FileIds : storage' = CacheOp(storage, pf[1], pf[2])
            \/ storage' = Load(storage, disk)

\* C22: is_cached(p, f) leaves the mapping unchanged and creates no entry
\* for p, so that save() writes the same document after it as before it
C22_PureQuery == []NoEmptyEntry /\ [][QueryChangesNothing]_vars

C22_Witness ==
    /\ answer = TRUE
    /\ DOMAIN storage = {"p1"}
    /\ disk.exists
    /\ DOMAIN disk.doc = {"p1"}
    /\ phase = "saved"

====
